---- MODULE Spec2Model ----
(***************************************************************************)
(* Model of cadastro_usuario.py: the user registry SistemaCadastro, its    *)
(* validation, its CSV persistence and the operations the menu drives.     *)
(*                                                                         *)
(* A text is a sequence of characters; a character is a one-character      *)
(* string, except the atom "a-tilde", which stands for U+00E3 (the fourth  *)
(* letter of 'João').  None is Python's None.                              *)
(***************************************************************************)
EXTENDS Integers, Sequences, FiniteSets, TLC

VARIABLES
    pc,        \* "startup" before the load of line 229, then "menu"
    usuarios,  \* self.usuarios: the sequence of records [nome, email]
    arquivo,   \* DATA_FILE_CSV: [existe |-> BOOLEAN, texto |-> its characters]
    log,       \* LOG_FILE: the sequence of events appended so far
    last       \* the most recent call: operation, arguments and outcome

vars == <<pc, usuarios, arquivo, log, last>>

----------------------------------------------------------------------------
(* Bounds of the model *)

\* the event log holds at most MaxLog lines: a call that would exceed it is not taken
MaxLog == 3
\* longest text handed to the validators in SpecValidar
MaxTexto == 7
\* longest store saved and loaded in SpecRoundTrip
MaxStore == 2

----------------------------------------------------------------------------
(* Characters and texts *)

None == <<"None">>

Minusculas == <<"a","b","c","d","e","f","g","h","i","j","k","l","m",
                "n","o","p","q","r","s","t","u","v","w","x","y","z">>
Maiusculas == <<"A","B","C","D","E","F","G","H","I","J","K","L","M",
                "N","O","P","Q","R","S","T","U","V","W","X","Y","Z">>

Range(s) == {s[i] : i \in 1..Len(s)}

AsciiLetras == Range(Minusculas) \cup Range(Maiusculas)
Digitos == {"0","1","2","3","4","5","6","7","8","9"}
\* str.strip() with no argument removes these (those the model's texts use)
Espacos == {" ", "\t", "\n", "\r"}

\* str.lower() on one character
Lower(c) ==
    IF c \in Range(Maiusculas)
    THEN Minusculas[CHOOSE i \in 1..26 : Maiusculas[i] = c]
    ELSE c

\* str.lower()
lower(s) == [i \in 1..Len(s) |-> Lower(s[i])]

\* str.replace(" ", ".")
replace_espaco_ponto(s) == [i \in 1..Len(s) |-> IF s[i] = " " THEN "." ELSE s[i]]

----------------------------------------------------------------------------
(* Validation *)

LocalChars == AsciiLetras \cup Digitos \cup {".", "_", "%", "+", "-"}
DominioChars == AsciiLetras \cup Digitos \cup {".", "-"}

AllIn(s, lo, hi, S) == \A k \in lo..hi : s[k] \in S

\* re.match(r'^[a-zA-Z0-9._%+-]+@[a-zA-Z0-9.-]+\.[a-zA-Z]{2,}$', s) with the
\* pattern required to end at position fim
MatchAte(s, fim) ==
    \E i \in 2..fim : \E j \in (i + 2)..fim :
        /\ s[i] = "@"
        /\ s[j] = "."
        /\ AllIn(s, 1, i - 1, LocalChars)
        /\ AllIn(s, i + 1, j - 1, DominioChars)
        /\ fim - j >= 2
        /\ AllIn(s, j + 1, fim, AsciiLetras)

validar_email_sem_ancora_final(email) ==
    \E fim \in 1..Len(email) : MatchAte(email, fim)

\* validar_email: '$' matches at the end of the text and before a final "\n"
validar_email(email) ==
    \/ MatchAte(email, Len(email))
    \/ /\ Len(email) >= 1
       /\ email[Len(email)] = "\n"
       /\ MatchAte(email, Len(email) - 1)

\* validar_nome: bool(nome.strip())
validar_nome(nome) == \E i \in 1..Len(nome) : nome[i] \notin Espacos

\* truth value of an optional text: None and '' are false
Truthy(s) == s # None /\ s # <<>>

----------------------------------------------------------------------------
(* CSV writer: csv.DictWriter, excel dialect, on a file opened with newline='' *)

Usuario(nome, email) == [nome |-> nome, email |-> email]

\* to_dict: the fields in fieldnames order
to_dict(u) == <<u.nome, u.email>>

Fieldnames == << <<"N","o","m","e">>, <<"E","m","a","i","l">> >>

RECURSIVE Concat(_)
Concat(ss) == IF ss = <<>> THEN <<>> ELSE Head(ss) \o Concat(Tail(ss))

\* doublequote: every quote character of a quoted field is written twice
DoubleQuotes(f) == Concat([i \in 1..Len(f) |-> IF f[i] = "\"" THEN <<"\"", "\"">> ELSE <<f[i]>>])

\* QUOTE_MINIMAL: a field holding the delimiter, the quote character or a
\* character of the line terminator is quoted
NeedsQuote(f) == \E i \in 1..Len(f) : f[i] \in {",", "\"", "\r", "\n"}

WriteField(f) == IF NeedsQuote(f) THEN <<"\"">> \o DoubleQuotes(f) \o <<"\"">> ELSE f

\* writerow: the fields joined by ',' and ended by the line terminator '\r\n'
WriteRow(fields) ==
    Concat([i \in 1..Len(fields) |->
              IF i = 1 THEN WriteField(fields[i]) ELSE <<",">> \o WriteField(fields[i])])
    \o <<"\r", "\n">>

\* writeheader then writerows
EscreverCSV(us) == WriteRow(Fieldnames) \o Concat([i \in 1..Len(us) |-> WriteRow(to_dict(us[i]))])

----------------------------------------------------------------------------
(* CSV reader: csv.DictReader, excel dialect, on a file opened in text mode  *)
(* with the default newline=None (universal newlines)                        *)

\* open(..., mode="r") without newline='': '\r\n' and a lone '\r' are read as '\n'
RECURSIVE UniversalNewlines(_)
UniversalNewlines(t) ==
    IF t = <<>> THEN <<>>
    ELSE IF t[1] = "\r"
         THEN IF Len(t) >= 2 /\ t[2] = "\n"
              THEN <<"\n">> \o UniversalNewlines(SubSeq(t, 3, Len(t)))
              ELSE <<"\n">> \o UniversalNewlines(Tail(t))
         ELSE <<t[1]>> \o UniversalNewlines(Tail(t))

\* the newline handling of the file object carregar_usuarios reads
TextModeRead(t) == UniversalNewlines(t)

\* iteration over the file object: the lines, each with its final '\n'
RECURSIVE SplitLines(_, _)
SplitLines(t, cur) ==
    IF t = <<>> THEN (IF cur = <<>> THEN <<>> ELSE <<cur>>)
    ELSE IF t[1] = "\n"
         THEN <<Append(cur, "\n")>> \o SplitLines(Tail(t), <<>>)
         ELSE SplitLines(Tail(t), Append(cur, t[1]))

\* the end-of-line marker the reader feeds itself after each line
EOL == "EOL"

ParseReset == [state |-> "START_RECORD", field |-> <<>>, fields |-> <<>>, erro |-> FALSE]

save_field(p) == [p EXCEPT !.fields = Append(@, p.field), !.field = <<>>]

add_char(p, c) == [p EXCEPT !.field = Append(@, c)]

AfterNewline(c) == IF c = EOL THEN "START_RECORD" ELSE "EAT_CRNL"

StartField(p, c) ==
    IF c \in {"\n", "\r", EOL} THEN [save_field(p) EXCEPT !.state = AfterNewline(c)]
    ELSE IF c = "\"" THEN [p EXCEPT !.state = "IN_QUOTED_FIELD"]
    ELSE IF c = "," THEN [save_field(p) EXCEPT !.state = "START_FIELD"]
    ELSE [add_char(p, c) EXCEPT !.state = "IN_FIELD"]

\* parse_process_char of the csv module (doublequote, no escapechar, not strict)
parse_process_char(p, c) ==
    CASE p.state = "START_RECORD" ->
            IF c = EOL THEN p
            ELSE IF c \in {"\n", "\r"} THEN [p EXCEPT !.state = "EAT_CRNL"]
            ELSE StartField(p, c)
      [] p.state = "START_FIELD" -> StartField(p, c)
      [] p.state = "IN_FIELD" ->
            IF c \in {"\n", "\r", EOL} THEN [save_field(p) EXCEPT !.state = AfterNewline(c)]
            ELSE IF c = "," THEN [save_field(p) EXCEPT !.state = "START_FIELD"]
            ELSE add_char(p, c)
      [] p.state = "IN_QUOTED_FIELD" ->
            IF c = EOL THEN p
            ELSE IF c = "\"" THEN [p EXCEPT !.state = "QUOTE_IN_QUOTED_FIELD"]
            ELSE add_char(p, c)
      [] p.state = "QUOTE_IN_QUOTED_FIELD" ->
            IF c = "\"" THEN [add_char(p, c) EXCEPT !.state = "IN_QUOTED_FIELD"]
            ELSE IF c = "," THEN [save_field(p) EXCEPT !.state = "START_FIELD"]
            ELSE IF c \in {"\n", "\r", EOL} THEN [save_field(p) EXCEPT !.state = AfterNewline(c)]
            ELSE [add_char(p, c) EXCEPT !.state = "IN_FIELD"]
      [] p.state = "EAT_CRNL" ->
            IF c \in {"\n", "\r"} THEN p
            ELSE IF c = EOL THEN [p EXCEPT !.state = "START_RECORD"]
            ELSE [p EXCEPT !.erro = TRUE]

\* one line fed to the parser, character by character, then the marker
RECURSIVE FeedLine(_, _)
FeedLine(p, line) ==
    IF p.erro THEN p
    ELSE IF line = <<>> THEN parse_process_char(p, EOL)
    ELSE FeedLine(parse_process_char(p, Head(line)), Tail(line))

\* the rows csv.reader yields for the lines from k on
RECURSIVE ReadRows(_, _, _, _)
ReadRows(lines, k, p, rows) ==
    IF k > Len(lines)
    THEN [erro |-> FALSE,
          rows |-> IF p.field # <<>> \/ p.state = "IN_QUOTED_FIELD"
                   THEN Append(rows, save_field(p).fields) ELSE rows]
    ELSE LET q == FeedLine(p, lines[k]) IN
         IF q.erro THEN [erro |-> TRUE, rows |-> rows]
         ELSE IF q.state = "START_RECORD"
              THEN ReadRows(lines, k + 1, ParseReset, Append(rows, q.fields))
              ELSE ReadRows(lines, k + 1, q, rows)

\* linha[key] of the dict DictReader builds for a row: the field under the
\* last column named key, None (restval) for a column the row is too short
\* for, "KeyError" when no column has that name
Lookup(header, row, key) ==
    LET cols == {i \in 1..Len(header) : header[i] = key} IN
    IF cols = {} THEN "KeyError"
    ELSE IF \E i \in cols : i > Len(row) THEN None
    ELSE row[CHOOSE i \in cols : \A j \in cols : j <= i]

\* [Usuario(linha['Nome'], linha['Email']) for linha in reader]: DictReader
\* takes the first row as the field names and skips the empty rows
LerCSV(texto) ==
    LET r == ReadRows(SplitLines(TextModeRead(texto), <<>>), 1, ParseReset, <<>>) IN
    IF r.erro THEN [erro |-> TRUE, usuarios |-> <<>>]
    ELSE IF r.rows = <<>> THEN [erro |-> FALSE, usuarios |-> <<>>]
    ELSE LET header == r.rows[1]
             data == SelectSeq(Tail(r.rows), LAMBDA row : row # <<>>)
             falha == \E i \in 1..Len(data) :
                         \/ Lookup(header, data[i], Fieldnames[1]) = "KeyError"
                         \/ Lookup(header, data[i], Fieldnames[2]) = "KeyError"
         IN IF falha THEN [erro |-> TRUE, usuarios |-> <<>>]
            ELSE [erro |-> FALSE,
                  usuarios |-> [i \in 1..Len(data) |->
                                  Usuario(Lookup(header, data[i], Fieldnames[1]),
                                          Lookup(header, data[i], Fieldnames[2]))]]

----------------------------------------------------------------------------
(* Persistence: carregar_usuarios and salvar_usuarios, formato='csv' (the   *)
(* default, the only one the program's calls use)                           *)

\* outcomes of the file system during a load: the read works or raises
LoadIO == {"ok", "erro"}
\* outcomes during a save, which each call that saves meets: the write works,
\* or open() raises and the file is left as it was
SaveIO == {"ok", "erro"}

StoreEmptiedByFailedLoad(us) == <<>>

\* the store a failing load leaves: self.usuarios is not assigned
StoreAfterFailedLoad(us) == us

\* carregar_usuarios: the store and the log lines it leaves
carregar_usuarios(us, arq, io) ==
    IF ~arq.existe
    THEN [usuarios |-> StoreAfterFailedLoad(us), log |-> <<>>, ok |-> FALSE, msg |-> "sem_arquivo"]
    ELSE LET r == LerCSV(arq.texto) IN
         IF io = "erro" \/ r.erro
         THEN [usuarios |-> StoreAfterFailedLoad(us), log |-> <<"erro_carregar">>,
               ok |-> FALSE, msg |-> "erro_carregar"]
         ELSE [usuarios |-> r.usuarios, log |-> <<>>, ok |-> TRUE, msg |-> "sucesso"]

\* salvar_usuarios: the file and the log lines it leaves
salvar_usuarios(us, arq, io) ==
    IF io = "ok"
    THEN [arquivo |-> [existe |-> TRUE, texto |-> EscreverCSV(us)], log |-> <<>>]
    ELSE [arquivo |-> arq, log |-> <<"erro_salvar">>]

----------------------------------------------------------------------------
(* Random generation *)

nomes ==
    << <<"A","n","a">>,
       <<"J","o","a-tilde","o">>,
       <<"M","a","r","i","a">>,
       <<"P","e","d","r","o">>,
       <<"L","u","c","a","s">>,
       <<"F","e","r","n","a","n","d","a">>,
       <<"J","u","l","i","a","n","a">>,
       <<"C","a","r","l","o","s">> >>

sobrenomes ==
    << <<"S","i","l","v","a">>,
       <<"S","o","u","z","a">>,
       <<"O","l","i","v","e","i","r","a">>,
       <<"S","a","n","t","o","s">>,
       <<"P","e","r","e","i","r","a">>,
       <<"L","i","m","a">>,
       <<"E","d","u","a","r","d","a">>,
       <<"M","i","g","u","e","l">>,
       <<"G","u","i","l","h","e","r","m","e">>,
       <<"B","a","t","a","t","a">> >>

\* gerar_nome_aleatorio with random.choice giving entries i and j
gerar_nome_aleatorio(i, j) == nomes[i] \o <<" ">> \o sobrenomes[j]

\* number of letters random.choices draws for the domain label
TamanhoRotulo == 5

\* the labels the model draws: one letter of ascii_lowercase, TamanhoRotulo times
Rotulos == {[k \in 1..TamanhoRotulo |-> c] : c \in {"a"}}

\* gerar_email_aleatorio with random.choices giving rotulo
gerar_email_aleatorio(nome, rotulo) ==
    lower(replace_espaco_ponto(nome)) \o <<"@">> \o rotulo
        \o <<"g","m","a","i","l",".","c","o","m">>

----------------------------------------------------------------------------
(* The registry *)

Emails(us) == {us[i].email : i \in 1..Len(us)}

\* any(usuario.email == email for usuario in self.usuarios)
EmailCadastrado(us, email) == email \in Emails(us)

\* index of the first record whose email is email, 0 when there is none
Primeiro(us, email) ==
    IF EmailCadastrado(us, email)
    THEN CHOOSE i \in 1..Len(us) : us[i].email = email /\ \A j \in 1..(i - 1) : us[j].email # email
    ELSE 0

Ultimo(us, email) ==
    IF EmailCadastrado(us, email)
    THEN CHOOSE i \in 1..Len(us) : us[i].email = email /\ \A j \in (i + 1)..Len(us) : us[j].email # email
    ELSE 0

\* the record the loops of apagar_usuario and atualizar_usuario stop at
Encontrado(us, email) == Primeiro(us, email)

\* self.usuarios.remove(usuario)
Remove(us, i) == SubSeq(us, 1, i - 1) \o SubSeq(us, i + 1, Len(us))

\* the record of a call that went through: its arguments and the outcome of its save
Call(op, nome, email, novo_nome, novo_email, io) ==
    [op |-> op, ok |-> TRUE, msg |-> "sucesso", nome |-> nome, email |-> email,
     novo_nome |-> novo_nome, novo_email |-> novo_email, io |-> io]

\* the record of a call that failed: the message it displayed or logged
Falha(op, msg) ==
    [op |-> op, ok |-> FALSE, msg |-> msg, nome |-> None, email |-> None,
     novo_nome |-> None, novo_email |-> None, io |-> "ok"]

\* a call that fails before it changes anything: mensagem_erro only displays
Rejeitado(op, msg) ==
    /\ last' = Falha(op, msg)
    /\ UNCHANGED <<pc, usuarios, arquivo, log>>

\* the bound of the model on the log: n more lines fit
LogCabe(n) == Len(log) + n <= MaxLog

\* lines a call that goes through appends: its own, after salvar_usuarios's if any
Linhas(io) == IF io = "ok" THEN 1 ELSE 2

CadastrarSemDuplicado(op, nome, email) ==
    IF ~validar_nome(nome) THEN Rejeitado(op, "nome_invalido")
    ELSE IF ~validar_email(email) THEN Rejeitado(op, "email_invalido")
    ELSE \E io \in SaveIO :
         /\ LogCabe(Linhas(io))
         /\ LET us == Append(usuarios, Usuario(nome, email))
                s == salvar_usuarios(us, arquivo, io)
            IN /\ usuarios' = us
               /\ arquivo' = s.arquivo
               /\ log' = log \o s.log \o <<"cadastrado">>
               /\ last' = Call(op, nome, email, None, None, io)
               /\ UNCHANGED pc

\* the body of cadastrar_usuario, under the name op of the operation that runs it
Cadastrar(op, nome, email) ==
    IF ~validar_nome(nome) THEN Rejeitado(op, "nome_invalido")
    ELSE IF ~validar_email(email) THEN Rejeitado(op, "email_invalido")
    ELSE IF EmailCadastrado(usuarios, email) THEN Rejeitado(op, "email_duplicado")
    ELSE \E io \in SaveIO :
         /\ LogCabe(Linhas(io))
         /\ LET us == Append(usuarios, Usuario(nome, email))
                s == salvar_usuarios(us, arquivo, io)
            IN /\ usuarios' = us
               /\ arquivo' = s.arquivo
               /\ log' = log \o s.log \o <<"cadastrado">>
               /\ last' = Call(op, nome, email, None, None, io)
               /\ UNCHANGED pc

cadastrar_usuario(nome, email) ==
    /\ pc = "menu"
    /\ Cadastrar("cadastrar", nome, email)

apagar_usuario(email) ==
    /\ pc = "menu"
    /\ LET i == Encontrado(usuarios, email) IN
       IF i = 0
       THEN Rejeitado("apagar", "nao_encontrado")
       ELSE \E io \in SaveIO :
            /\ LogCabe(Linhas(io))
            /\ LET us == Remove(usuarios, i)
                   s == salvar_usuarios(us, arquivo, io)
               IN /\ usuarios' = us
                  /\ arquivo' = s.arquivo
                  /\ log' = log \o s.log \o <<"removido">>
                  /\ last' = Call("apagar", None, email, None, None, io)
                  /\ UNCHANGED pc

\* the fields atualizar_usuario leaves in the record it found
NomeAtualizadoSemValidar(u, novo_nome) ==
    IF Truthy(novo_nome) THEN novo_nome ELSE u.nome

NomeAtualizado(u, novo_nome) ==
    IF Truthy(novo_nome) /\ validar_nome(novo_nome) THEN novo_nome ELSE u.nome

EmailAtualizado(u, novo_email) ==
    IF Truthy(novo_email) /\ validar_email(novo_email) THEN novo_email ELSE u.email

atualizar_usuario(email, novo_nome, novo_email) ==
    /\ pc = "menu"
    /\ LET i == Encontrado(usuarios, email) IN
       IF i = 0
       THEN Rejeitado("atualizar", "nao_encontrado")
       ELSE \E io \in SaveIO :
            /\ LogCabe(Linhas(io))
            /\ LET u == Usuario(NomeAtualizado(usuarios[i], novo_nome),
                                EmailAtualizado(usuarios[i], novo_email))
                   us == [usuarios EXCEPT ![i] = u]
                   s == salvar_usuarios(us, arquivo, io)
               IN /\ usuarios' = us
                  /\ arquivo' = s.arquivo
                  /\ log' = log \o s.log \o <<"atualizado">>
                  /\ last' = Call("atualizar", None, email, novo_nome, novo_email, io)
                  /\ UNCHANGED pc

\* gerar_usuario_aleatorio: the loop draws labels until the email is in no
\* record; rotulo is the label it leaves the loop with
gerar_usuario_aleatorio(i, j, rotulo) ==
    /\ pc = "menu"
    /\ LET nome == gerar_nome_aleatorio(i, j)
           email == gerar_email_aleatorio(nome, rotulo)
       IN /\ ~EmailCadastrado(usuarios, email)
          /\ Cadastrar("gerar", nome, email)

\* the load of line 229 (startup) or of menu option 2 (list), under the name op
Carregar(op, io) ==
    /\ arquivo.existe \/ io = "ok"    \* no file: nothing is read, nothing can raise
    /\ LET c == carregar_usuarios(usuarios, arquivo, io) IN
       /\ LogCabe(Len(c.log))
       /\ usuarios' = c.usuarios
       /\ log' = log \o c.log
       /\ last' = IF c.ok THEN Call(op, None, None, None, None, io) ELSE Falha(op, c.msg)
       /\ UNCHANGED arquivo

\* __main__: sistema.carregar_usuarios() before the menu
Startup(io) ==
    /\ pc = "startup"
    /\ pc' = "menu"
    /\ Carregar("carregar", io)

\* menu option 2: carregar_usuarios then listar_usuarios, which only displays
menu_listar(io) ==
    /\ pc = "menu"
    /\ UNCHANGED pc
    /\ Carregar("listar", io)

----------------------------------------------------------------------------
(* Inputs of the model *)

E1 == <<"a","@","b",".","c","o">>
E2 == <<"c","@","b",".","c","o">>
EmailSemTld == <<"a","@","b">>
EmailComResto == <<"a","@","b",".","c","o"," ","x">>

\* names given to cadastrar_usuario: whitespace only, plain, with a carriage return
NomesEntrada == { <<" ">>, <<"A">>, <<"A","\r","B">> }
EmailsEntrada == { E1, E2, EmailSemTld }
\* emails given to apagar_usuario and atualizar_usuario
EmailsBusca == { E1, E2 }
NovosNomes == { None, <<>>, <<" ">>, <<"B">> }
NovosEmails == { None, EmailSemTld, E1 }

\* the entries of nomes and of sobrenomes random.choice gives in the model:
\* 'Ana' and 'João', 'Silva'
NomesSorteados == {1, 2}
SobrenomesSorteados == {1}

SemArquivo == [existe |-> FALSE, texto |-> <<>>]
\* a file some other program wrote: its header has no Nome and no Email column
ArquivoAlheio == [existe |-> TRUE, texto |-> <<"x","\r","\n","y","\r","\n">>]
\* the file a previous run saved
ArquivoAnterior == [existe |-> TRUE, texto |-> EscreverCSV(<<Usuario(<<"A">>, E1)>>)]

ArquivosIniciais == { SemArquivo, ArquivoAlheio, ArquivoAnterior }

Init ==
    /\ pc = "startup"
    /\ usuarios = <<>>
    /\ arquivo \in ArquivosIniciais
    /\ log = <<>>
    /\ last = Call("init", None, None, None, None, "ok")

Next ==
    \/ \E io \in LoadIO : Startup(io)
    \/ \E nome \in NomesEntrada, email \in EmailsEntrada : cadastrar_usuario(nome, email)
    \/ \E io \in LoadIO : menu_listar(io)
    \/ \E email \in EmailsBusca : apagar_usuario(email)
    \/ \E email \in EmailsBusca, novo_nome \in NovosNomes, novo_email \in NovosEmails :
          atualizar_usuario(email, novo_nome, novo_email)
    \/ \E i \in NomesSorteados, j \in SobrenomesSorteados, rotulo \in Rotulos :
          gerar_usuario_aleatorio(i, j, rotulo)

Spec == Init /\ [][Next]_vars

----------------------------------------------------------------------------
(* The validators alone: every text up to MaxTexto over a small alphabet,   *)
(* and the texts the specification quotes                                    *)

AlfabetoValidar == {"a", "@", ".", " "}

NotAnEmail == <<"n","o","t","-","a","n","-","e","m","a","i","l">>
AbComExtra == <<"a","@","b",".","c","o","m"," ","e","x","t","r","a">>
AnaComEspacos == <<" ","A","n","a"," ">>

TextosCitados ==
    { E1, EmailSemTld, NotAnEmail, AbComExtra, EmailComResto,
      E1 \o <<"\n">>, E1 \o <<"\n", "\n">>, <<" ", " ">>, AnaComEspacos }

TextosValidar ==
    TextosCitados \cup UNION {[1..n -> AlfabetoValidar] : n \in 0..MaxTexto}

InitValidar ==
    /\ pc = "validar"
    /\ usuarios = <<>>
    /\ arquivo = SemArquivo
    /\ log = <<>>
    /\ \E t \in TextosValidar : last = Call("texto", t, t, None, None, "ok")

\* sistema.validar_email(t)
ValidarEmail ==
    /\ pc = "validar"
    /\ last.op = "texto"
    /\ last' = [last EXCEPT !.op = "validar_email", !.ok = validar_email(last.email)]
    /\ UNCHANGED <<pc, usuarios, arquivo, log>>

\* sistema.validar_nome(t)
ValidarNome ==
    /\ pc = "validar"
    /\ last.op = "texto"
    /\ last' = [last EXCEPT !.op = "validar_nome", !.ok = validar_nome(last.nome)]
    /\ UNCHANGED <<pc, usuarios, arquivo, log>>

NextValidar == ValidarEmail \/ ValidarNome

SpecValidar == InitValidar /\ [][NextValidar]_vars

----------------------------------------------------------------------------
(* Save then load: every store up to MaxStore over names that need quoting  *)
(* or hold a line break                                                      *)

NomesRT == { <<"A">>, <<"A",",","\"","B">>, <<"A","\r","B">> }
EmailsRT == { E1, E1 \o <<"\n">> }
RegistrosRT == {Usuario(n, e) : n \in NomesRT, e \in EmailsRT}
StoresRT == UNION {[1..n -> RegistrosRT] : n \in 0..MaxStore}

InitRoundTrip ==
    /\ pc = "salvar"
    /\ usuarios \in StoresRT
    /\ arquivo = SemArquivo
    /\ log = <<>>
    /\ last = Call("init", None, None, None, None, "ok")

\* sistema.salvar_usuarios('csv'), the write working
SalvarRT ==
    /\ pc = "salvar"
    /\ pc' = "carregar"
    /\ LET s == salvar_usuarios(usuarios, arquivo, "ok") IN
       /\ arquivo' = s.arquivo
       /\ log' = log \o s.log
    /\ last' = Call("salvar", None, None, None, None, "ok")
    /\ UNCHANGED usuarios

\* sistema.carregar_usuarios('csv'), the read working
CarregarRT ==
    /\ pc = "carregar"
    /\ pc' = "fim"
    /\ LET c == carregar_usuarios(usuarios, arquivo, "ok") IN
       /\ usuarios' = c.usuarios
       /\ log' = log \o c.log
       /\ last' = IF c.ok THEN Call("carregar", None, None, None, None, "ok")
                  ELSE Falha("carregar", c.msg)
    /\ UNCHANGED arquivo

NextRoundTrip == SalvarRT \/ CarregarRT

SpecRoundTrip == InitRoundTrip /\ [][NextRoundTrip]_vars

----------------------------------------------------------------------------
(* Properties *)

Mutacoes == {"cadastrar", "gerar", "apagar", "atualizar"}

\* index of the first record of us whose email is email
PrimeiroCom(us, email) ==
    CHOOSE i \in 1..Len(us) : us[i].email = email /\ \A j \in 1..(i - 1) : us[j].email # email

\* C1: in every reachable state no two records of the store have the same
\* email, compared case-sensitively.
C1_EmailsUnicos ==
    \A i, j \in 1..Len(usuarios) : i # j => usuarios[i].email # usuarios[j].email

\* C2: a create given an invalid name, an invalid email or an email a record
\* already has, a delete and an update of an email no record has, each leave
\* the store, the data file and the event log exactly as they were.
C2_FalhaNaoAlteraEstado ==
    [][ /\ last'.op = "cadastrar" =>
             \A nome \in NomesEntrada, email \in EmailsEntrada :
                ( /\ \/ \A k \in 1..Len(nome) : nome[k] \in Espacos
                     \/ ~validar_email(email)
                     \/ \E k \in 1..Len(usuarios) : usuarios[k].email = email
                  /\ cadastrar_usuario(nome, email) )
                => UNCHANGED <<usuarios, arquivo, log>>
        /\ last'.op = "apagar" =>
             \A email \in EmailsBusca :
                ( /\ \A k \in 1..Len(usuarios) : usuarios[k].email # email
                  /\ apagar_usuario(email) )
                => UNCHANGED <<usuarios, arquivo, log>>
        /\ last'.op = "atualizar" =>
             \A email \in EmailsBusca, novo_nome \in NovosNomes, novo_email \in NovosEmails :
                ( /\ \A k \in 1..Len(usuarios) : usuarios[k].email # email
                  /\ atualizar_usuario(email, novo_nome, novo_email) )
                => UNCHANGED <<usuarios, arquivo, log>>
        /\ (last'.op \in Mutacoes /\ ~last'.ok) => UNCHANGED <<usuarios, arquivo, log>>
      ]_vars

\* a create was rejected for a duplicate email, with a record in the store and a
\* data file on disk
C2_Witness ==
    /\ last.op = "cadastrar"
    /\ last.msg = "email_duplicado"
    /\ usuarios # <<>>
    /\ arquivo.existe
    /\ log # <<>>

\* C3: after a create, delete or update that went through and whose save
\* worked, the data file holds the store: a load at that point leaves the
\* store unchanged.
C3_ArquivoIgualAoStore ==
    (last.op \in Mutacoes /\ last.ok /\ last.io = "ok")
    => /\ arquivo.existe
       /\ carregar_usuarios(usuarios, arquivo, "ok").ok
       /\ carregar_usuarios(usuarios, arquivo, "ok").usuarios = usuarios

\* C4: an update of a record that exists replaces the name iff the new name is
\* provided and passes validar_nome, replaces the email iff the new email is
\* provided and passes validar_email, and changes no other record nor the order.
C4_AtualizarCamposIndependentes ==
    [][ (last'.op = "atualizar" /\ last'.ok) =>
          /\ \E k \in 1..Len(usuarios) : usuarios[k].email = last'.email
          /\ LET i == PrimeiroCom(usuarios, last'.email)
                 nn == last'.novo_nome
                 ne == last'.novo_email
                 nomeDado == nn # None /\ nn # <<>>
                 emailDado == ne # None /\ ne # <<>>
             IN /\ Len(usuarios') = Len(usuarios)
                /\ \A k \in 1..Len(usuarios) : k # i => usuarios'[k] = usuarios[k]
                /\ usuarios'[i].nome =
                      IF nomeDado /\ validar_nome(nn) THEN nn ELSE usuarios[i].nome
                /\ usuarios'[i].email =
                      IF emailDado /\ validar_email(ne) THEN ne ELSE usuarios[i].email
                /\ (nn = <<" ">>) => usuarios'[i].nome = usuarios[i].nome
                /\ (ne = EmailSemTld) => usuarios'[i].email = usuarios[i].email
      ]_vars

\* an update with a blank new name and a valid new email went through on a
\* store of two records: the record has the new email and its old name
C4_Witness ==
    /\ last.op = "atualizar"
    /\ last.ok
    /\ last.novo_nome = <<>>
    /\ last.email = E2
    /\ last.novo_email = E1
    /\ Len(usuarios) = 2
    /\ usuarios[2].email = E1
    /\ usuarios[2].nome = <<"A","\r","B">>

\* C5: after a load whose file does not exist or whose read or parse fails, the
\* store is the empty sequence, whatever it held before.
C5_FalhaAoCarregarEsvazia ==
    (last.op \in {"carregar", "listar"} /\ ~last.ok) => usuarios = <<>>

\* C5 as amended: a load whose file does not exist or whose read or parse
\* fails leaves the store as it was before the load, and the menu goes on.
C5_FalhaAoCarregarMantemStore ==
    [][ (last'.op \in {"carregar", "listar"} /\ ~last'.ok) =>
          /\ usuarios' = usuarios
          /\ arquivo' = arquivo
          /\ pc' = "menu"
      ]_vars

\* the load of the list option failed reading an existing file while the store
\* held a record, which it still holds
C5_Witness ==
    /\ last.op = "listar"
    /\ last.msg = "erro_carregar"
    /\ arquivo.existe
    /\ usuarios # <<>>

\* C6: after a create, delete or update whose save failed, the operation that
\* follows, list included, does not discard the records in memory.
C6_ListarMantemNaoSalvos ==
    [][ (last.op \in Mutacoes /\ last.ok /\ last.io = "erro" /\ last'.op = "listar")
          => usuarios' = usuarios ]_vars

\* C7: every call of gerar_usuario_aleatorio appends exactly one record, whose
\* email no record had before the call.
C7_GerarCriaUmRegistro ==
    [][ last'.op = "gerar" =>
          /\ Len(usuarios') = Len(usuarios) + 1
          /\ SubSeq(usuarios', 1, Len(usuarios)) = usuarios
          /\ \A k \in 1..Len(usuarios) : usuarios[k].email # usuarios'[Len(usuarios')].email
      ]_vars

\* C8: a save in CSV followed by a load in CSV yields the store that was
\* saved: the same names and emails in the same order.
C8_RoundTrip ==
    [][ pc = "carregar" => (last'.ok /\ usuarios' = usuarios) ]_vars

\* C9: validar_email anchors its pattern only at the start: a text that starts
\* with a valid address is accepted whatever follows it.
C9_SoAncoraInicio ==
    last.op = "validar_email" =>
       (last.ok <=> \E n \in 1..Len(last.email) : validar_email(SubSeq(last.email, 1, n)))

\* C9 as amended: validar_email anchors its pattern at both ends: an accepted
\* text ends, but for one final line feed, with the two ASCII letters that end
\* the address, so "a@b.com extra" is rejected; "a@b.co" is accepted;
\* "not-an-email" and "a@b" are rejected.
C9_AncoraInicioEFim ==
    last.op = "validar_email" =>
       /\ last.ok =>
            LET t == last.email
                n == IF t[Len(t)] = "\n" THEN Len(t) - 1 ELSE Len(t)
            IN /\ n >= 6
               /\ t[n] \in AsciiLetras
               /\ t[n - 1] \in AsciiLetras
               /\ \A k \in 1..n : t[k] \notin {" ", "\n"}
               /\ \E k \in 1..n : t[k] = "@"
       /\ last.email = E1 => last.ok
       /\ last.email \in {NotAnEmail, EmailSemTld, AbComExtra, EmailComResto} => ~last.ok

\* validar_email has rejected a valid address followed by a space and a letter
C9_Witness ==
    /\ last.op = "validar_email"
    /\ last.email = EmailComResto
    /\ ~last.ok

====
